---- MODULE Spec2Model ----
(***************************************************************************)
(* The participant / track presentation state machine of                   *)
(* quickstart/src/joinroom.js: which Participant is active, how a          *)
(* thumbnail click pins one, how the Room's teardown settles joinRoom's    *)
(* Promise, how the mobile visibilitychange handler swaps the local camera *)
(* track, what the thumbnail and main <video> elements show, and which     *)
(* Rooms the Leave and start-sharing clicks reach.                         *)
(*                                                                         *)
(* Objects are told apart by identity, as `===` does in the source:        *)
(*   a Participant of the s-th Room is <<s, i>>  (i = 0: LocalParticipant) *)
(*   a VideoTrack of that Participant is <<s, i, k>>                       *)
(* Only video tracks are modelled: an audio track takes the same           *)
(* attachTrack / detachTrack path without the main-surface branch.         *)
(***************************************************************************)
EXTENDS Integers, Sequences, FiniteSets, TLC

\* ---- bounds of the model
MaxSessions == 2
MaxSessionsMobile == 1
MaxRemotes == 2
MaxRemotesMobile == 1
MaxVideoPubs == 1
MaxLocalTracks == 3
MaxVideoPubsTracks == 2
MaxRoomPubs == 2
MaxScreenShares == 1

\* ---- values
Null == <<>>
NoStream == <<>>
EmptyStream == <<0>>

VARIABLES
  isMobile,                  \* require('./browser').isMobile
  session,                   \* number of Rooms joinRoom has obtained; the current Room
  roomState,                 \* "none" | "connected" | "disconnected" (current Room)
  participants,              \* room.participants, in Map insertion order (remote ids)
  everJoined,                \* remote ids whose RemoteParticipant object exists(ed) in the Room
  dominantSpeaker,           \* room.dominantSpeaker: a Participant or Null
  videoTracks,               \* remote id -> its videoTracks publications, in insertion order
  unpublished,               \* <<track, ever subscribed>> of the publications that were unpublished
  activeParticipant,         \* line 14
  isActiveParticipantPinned, \* line 18
  containers,                \* Participants with a div.participant inside $participants
  activeClass,               \* containers carrying class "active"
  pinnedClass,               \* containers carrying class "pinned"
  thumbSrc,                  \* container -> srcObject of its thumbnail <video>
  mainSrc,                   \* $activeVideo.get(0).srcObject: NoStream, EmptyStream or a track
  mainOpacity,               \* $activeVideo opacity: "0" or ""
  highPriority,              \* remote tracks whose last setPriority argument was 'high'
  promise,                   \* the Promise joinRoom returned: "none" | "pending" | "resolved" | "rejected"
  settleCalls,               \* calls of resolve / reject on that Promise
  disconnectError,           \* what the Room's "disconnected" event carried: "none" | "error" | "clean"
  disconnectedListener,      \* room.once('disconnected', ...) is still registered
  leaveHandlers,             \* sessions whose onLeave is bound to $leave
  onbeforeunload,            \* window.onbeforeunload: the session that set it, 0 = null
  onpagehide,                \* window.onpagehide
  onvisibilitychange,        \* document.onvisibilitychange
  visibilityState,           \* document.visibilityState
  localVideoTrack,           \* session -> the closure variable localVideoTrack of that joinRoom call
  created,                   \* every LocalVideoTrack the controller saved or created
  stopped,                   \* LocalVideoTracks on which stop() was called
  localPubs,                 \* room.localParticipant.videoTracks of the current Room, insertion order
  creating,                  \* session -> handler runs suspended in `await createLocalVideoTrack`
  publishing,                \* tracks whose handler run is suspended in `await publishTrack`
  overlapped,                \* a visibilitychange handler began while another run was suspended
  interrupted,               \* the Room disconnected while a handler run was suspended
  pinClicked,                \* the Participant whose thumbnail click last pinned
  lastEvent                  \* the handler that ran last: see Event

roomVars == <<session, roomState, participants, everJoined, dominantSpeaker, videoTracks,
              unpublished>>
uiVars == <<activeParticipant, isActiveParticipantPinned, containers, activeClass,
            pinnedClass, thumbSrc, mainSrc, mainOpacity, highPriority>>
promiseVars == <<promise, settleCalls, disconnectError, disconnectedListener>>
hookVars == <<leaveHandlers, onbeforeunload, onpagehide, onvisibilitychange>>
trackVars == <<localVideoTrack, created, stopped, localPubs>>
runVars == <<creating, publishing, overlapped, interrupted>>
vars == <<isMobile, roomVars, uiVars, promiseVars, hookVars, visibilityState,
          trackVars, runVars, pinClicked, lastEvent>>

SessionBound == IF isMobile THEN MaxSessionsMobile ELSE MaxSessions
Sessions == 1..SessionBound
Remotes == IF isMobile THEN 1..MaxRemotesMobile ELSE 1..MaxRemotes
PubIds == 1..MaxVideoPubs

Local(s) == <<s, 0>>
Remote(s, i) == <<s, i>>
IsLocal(p) == p[2] = 0

Range(f) == {f[x] : x \in DOMAIN f}
Remove(seq, x) == SelectSeq(seq, LAMBDA y : y # x)
Drop(f, x) == [y \in DOMAIN f \ {x} |-> f[y]]
\* kind: the listener; p: the Participant it was about; wasPinned: p was the pinned
\* active Participant when it began; via: what made the Room disconnect; threw: the
\* listener ended in a TypeError; rooms: the Rooms a click handler called into
Event(kind, p) ==
  [kind |-> kind, p |-> p, wasPinned |-> FALSE, via |-> "", threw |-> FALSE, rooms |-> {}]

\* ---- the objects handlers read
\* heap: session -> the track maps of that Room's Participants, so that a stale
\* activeParticipant (an object of the previous Room) can still be asked for its
\* videoTracks, as line 120 does.
Heap(s, lp, vt) == s :> [localPubs |-> lp, videoTracks |-> vt]
CurHeap == IF session = 0 THEN <<>> ELSE Heap(session, localPubs, videoTracks)

\* room: what handlers destructure from the Room object.
RoomOf(s, dom) == [dominantSpeaker |-> dom, localParticipant |-> Local(s)]
CurRoom == RoomOf(session, dominantSpeaker)

\* Array.from(participant.videoTracks.values())[0] || {}, then its `track`:
\* only the first publication is looked at, and its track is null until subscribed.
\* A LocalTrackPublication always holds its track.
FirstVideoTrack(participant, heap) ==
  IF participant = Null \/ participant[1] \notin DOMAIN heap THEN Null
  ELSE IF IsLocal(participant)
    THEN LET lp == heap[participant[1]].localPubs
         IN IF lp = <<>> THEN Null ELSE Head(lp)
    ELSE LET pubs == heap[participant[1]].videoTracks[participant[2]]
         IN IF pubs = <<>> \/ ~pubs[1].track THEN Null
            ELSE <<participant[1], participant[2], pubs[1].id>>

\* The subscribed RemoteVideoTracks of a Participant: the tracks setVideoPriority
\* reaches (publication.track non-null and track.setPriority defined; a
\* LocalVideoTrack has no setPriority).
PriorityTracks(participant, heap) ==
  IF participant = Null \/ participant[1] \notin DOMAIN heap \/ IsLocal(participant) THEN {}
  ELSE LET pubs == heap[participant[1]].videoTracks[participant[2]]
       IN {<<participant[1], participant[2], pubs[n].id>> : n \in {m \in DOMAIN pubs : pubs[m].track}}

\* track.attach(el) / track.detach(el) on the main <video>: attach replaces the
\* element's video track by this one; detach takes this track out of the stream.
AttachMain(src, track) == track
DetachMain(src, track) == IF src = track THEN EmptyStream ELSE src

\* ---- the presentation state as one value, threaded through a handler
UI == [activeParticipant |-> activeParticipant,
       isActiveParticipantPinned |-> isActiveParticipantPinned,
       containers |-> containers,
       activeClass |-> activeClass,
       pinnedClass |-> pinnedClass,
       thumbSrc |-> thumbSrc,
       mainSrc |-> mainSrc,
       mainOpacity |-> mainOpacity,
       highPriority |-> highPriority]

SetUI(ui) ==
  /\ activeParticipant' = ui.activeParticipant
  /\ isActiveParticipantPinned' = ui.isActiveParticipantPinned
  /\ containers' = ui.containers
  /\ activeClass' = ui.activeClass
  /\ pinnedClass' = ui.pinnedClass
  /\ thumbSrc' = ui.thumbSrc
  /\ mainSrc' = ui.mainSrc
  /\ mainOpacity' = ui.mainOpacity
  /\ highPriority' = ui.highPriority

\* mutant of setActiveParticipant: the previous container keeps its classes
setActiveParticipant_KeepsMarks(ui, participant, heap) ==
  LET old == ui.activeParticipant
      activeTrack == FirstVideoTrack(old, heap)
      u1 == IF old = Null THEN ui
            ELSE [ui EXCEPT !.mainSrc = IF activeTrack # Null THEN DetachMain(@, activeTrack) ELSE @,
                            !.mainOpacity = IF activeTrack # Null THEN "0" ELSE @]
      track == FirstVideoTrack(participant, heap)
      here == participant \in u1.containers
  IN [u1 EXCEPT !.activeParticipant = participant,
                !.activeClass = IF here THEN @ \cup {participant} ELSE @,
                !.pinnedClass = IF here /\ u1.isActiveParticipantPinned
                                THEN @ \cup {participant} ELSE @,
                !.mainSrc = IF track # Null THEN AttachMain(@, track) ELSE @,
                !.mainOpacity = IF track # Null THEN "" ELSE @]

\* lines 113-146
setActiveParticipant(ui, participant, heap) ==
  LET old == ui.activeParticipant
      activeTrack == FirstVideoTrack(old, heap)
      u1 == IF old = Null THEN ui
            ELSE [ui EXCEPT !.activeClass = @ \ {old},
                            !.pinnedClass = @ \ {old},
                            !.mainSrc = IF activeTrack # Null THEN DetachMain(@, activeTrack) ELSE @,
                            !.mainOpacity = IF activeTrack # Null THEN "0" ELSE @]
      track == FirstVideoTrack(participant, heap)
      here == participant \in u1.containers
  IN [u1 EXCEPT !.activeParticipant = participant,
                !.activeClass = IF here THEN @ \cup {participant} ELSE @,
                !.pinnedClass = IF here /\ u1.isActiveParticipantPinned
                                THEN @ \cup {participant} ELSE @,
                !.mainSrc = IF track # Null THEN AttachMain(@, track) ELSE @,
                !.mainOpacity = IF track # Null THEN "" ELSE @]

\* mutant of DominantOrLocal: the dominant speaker is ignored
DominantOrLocal_IgnoresSpeaker(room) == room.localParticipant

\* lines 152-155: dominantSpeaker || localParticipant
DominantOrLocal(room) ==
  IF room.dominantSpeaker # Null THEN room.dominantSpeaker ELSE room.localParticipant

setCurrentActiveParticipant(ui, room, heap) ==
  setActiveParticipant(ui, DominantOrLocal(room), heap)

\* mutant of setVideoPriority: a priority is never taken back
setVideoPriority_OnlyRaises(ui, participant, priority, heap) ==
  [ui EXCEPT !.highPriority = IF priority = "high"
                              THEN @ \cup PriorityTracks(participant, heap)
                              ELSE @]

\* lines 199-206
setVideoPriority(ui, participant, priority, heap) ==
  [ui EXCEPT !.highPriority = IF priority = "high"
                              THEN @ \cup PriorityTracks(participant, heap)
                              ELSE @ \ PriorityTracks(participant, heap)]

\* mutant of onClick: unpinning does not reselect the active Participant
onClick_UnpinKeepsActive(ui, participant, room, heap) ==
  IF ui.activeParticipant = participant /\ ui.isActiveParticipantPinned
  THEN [setVideoPriority(ui, participant, "null", heap) EXCEPT
          !.isActiveParticipantPinned = FALSE]
  ELSE LET u1 == IF ui.isActiveParticipantPinned
                 THEN setVideoPriority(ui, ui.activeParticipant, "null", heap) ELSE ui
           u2 == setVideoPriority(u1, participant, "high", heap)
           u3 == [u2 EXCEPT !.isActiveParticipantPinned = TRUE]
       IN setActiveParticipant(u3, participant, heap)

\* lines 172-187: the thumbnail's click handler
onClick(ui, participant, room, heap) ==
  IF ui.activeParticipant = participant /\ ui.isActiveParticipantPinned
  THEN LET u1 == setVideoPriority(ui, participant, "null", heap)
           u2 == [u1 EXCEPT !.isActiveParticipantPinned = FALSE]
       IN setCurrentActiveParticipant(u2, room, heap)
  ELSE LET u1 == IF ui.isActiveParticipantPinned
                 THEN setVideoPriority(ui, ui.activeParticipant, "null", heap) ELSE ui
           u2 == setVideoPriority(u1, participant, "high", heap)
           u3 == [u2 EXCEPT !.isActiveParticipantPinned = TRUE]
       IN setActiveParticipant(u3, participant, heap)

\* lines 162-191: the container, whose <video> has no srcObject, is appended to
\* $participants
setupParticipantContainer(ui, participant) ==
  [ui EXCEPT !.containers = @ \cup {participant},
             !.thumbSrc = (participant :> NoStream) @@ @]

\* lines 213-225: the thumbnail <video> of the Participant's container, if there is
\* one ($media.get(0) is undefined otherwise, and track.attach(undefined) attaches
\* to an element outside the document); then the main <video> if the Participant
\* is the active one
attachTrack(ui, track, participant) ==
  LET u1 == IF participant \in ui.containers
            THEN [ui EXCEPT !.thumbSrc[participant] = AttachMain(@, track)]
            ELSE ui
  IN IF participant = ui.activeParticipant
     THEN [u1 EXCEPT !.mainSrc = AttachMain(@, track), !.mainOpacity = ""]
     ELSE u1

\* line 238: `mediaEl.srcObject = null` with mediaEl undefined, a TypeError
detachTrackThrows(ui, participant) == participant \notin ui.containers

\* lines 232-248: detach, then srcObject = null, on the thumbnail and, for the
\* active Participant, on the main <video>.  Without a container, line 237 is
\* track.detach(undefined), which detaches the track from every element it is
\* attached to, and line 238 throws before the main-surface branch.
detachTrack(ui, track, participant) ==
  IF detachTrackThrows(ui, participant)
  THEN [ui EXCEPT !.mainSrc = DetachMain(@, track)]
  ELSE LET u1 == [ui EXCEPT !.thumbSrc[participant] = NoStream]
       IN IF participant = ui.activeParticipant
          THEN [u1 EXCEPT !.mainSrc = NoStream, !.mainOpacity = "0"]
          ELSE u1

\* mutant of participantDisconnected: the pin flag is left set
participantDisconnected_KeepsPin(ui, participant, room, heap) ==
  LET u1 == IF ui.activeParticipant = participant /\ ui.isActiveParticipantPinned
            THEN setCurrentActiveParticipant(ui, room, heap)
            ELSE ui
  IN [u1 EXCEPT !.containers = @ \ {participant},
                !.activeClass = @ \ {participant},
                !.pinnedClass = @ \ {participant},
                !.thumbSrc = Drop(@, participant)]

\* lines 275-285
participantDisconnected(ui, participant, room, heap) ==
  LET u1 == IF ui.activeParticipant = participant /\ ui.isActiveParticipantPinned
            THEN setCurrentActiveParticipant(
                   [ui EXCEPT !.isActiveParticipantPinned = FALSE], room, heap)
            ELSE ui
  IN [u1 EXCEPT !.containers = @ \ {participant},
                !.activeClass = @ \ {participant},
                !.pinnedClass = @ \ {participant},
                !.thumbSrc = Drop(@, participant)]

\* mutant of onDominantSpeakerChanged: the pin is not consulted
onDominantSpeakerChanged_Unguarded(ui, room, heap) ==
  setCurrentActiveParticipant(ui, room, heap)

\* lines 355-359: the dominantSpeakerChanged listener
onDominantSpeakerChanged(ui, room, heap) ==
  IF ~ui.isActiveParticipantPinned THEN setCurrentActiveParticipant(ui, room, heap) ELSE ui

\* ---- initial state: the module has been loaded, joinRoom not yet called
InitCommon ==
  /\ session = 0
  /\ roomState = "none"
  /\ participants = <<>>
  /\ everJoined = {}
  /\ dominantSpeaker = Null
  /\ videoTracks = [i \in Remotes |-> <<>>]
  /\ unpublished = {}
  /\ activeParticipant = Null
  /\ isActiveParticipantPinned = FALSE
  /\ containers = {}
  /\ activeClass = {}
  /\ pinnedClass = {}
  /\ thumbSrc = <<>>
  /\ mainSrc = NoStream
  /\ mainOpacity = ""
  /\ highPriority = {}
  /\ promise = "none"
  /\ settleCalls = 0
  /\ disconnectError = "none"
  /\ disconnectedListener = FALSE
  /\ leaveHandlers = {}
  /\ onbeforeunload = 0
  /\ onpagehide = 0
  /\ onvisibilitychange = 0
  /\ visibilityState = "visible"
  /\ localVideoTrack = <<>>
  /\ created = {}
  /\ stopped = {}
  /\ localPubs = <<>>
  /\ creating = [s \in Sessions |-> 0]
  /\ publishing = {}
  /\ overlapped = FALSE
  /\ interrupted = FALSE
  /\ pinClicked = Null
  /\ lastEvent = Event("load", Null)

Init == isMobile = FALSE /\ InitCommon
InitMobile == isMobile = TRUE /\ InitCommon

\* Sequences without repetition over S, of length at most n: the orders in which a
\* Map can hold the RemoteParticipants already in the Room.
InjectiveSeqs(S, n) ==
  UNION {{q \in [1..m -> S] : \A a, b \in 1..m : a # b => q[a] # q[b]} : m \in 0..n}

RECURSIVE ConnectAll(_, _, _)
\* lines 336-338: room.participants.forEach(participant => participantConnected(...))
ConnectAll(ui, s, seq) ==
  IF seq = <<>> THEN ui
  ELSE ConnectAll(setupParticipantContainer(ui, Remote(s, Head(seq))), s, Tail(seq))

\* mutant of joinRoomSetup: line 351 is left out
joinRoomSetup_KeepsActive(ui, s, initial, dom, heap) ==
  LET u1 == setupParticipantContainer(ui, Local(s))
      u2 == attachTrack(u1, <<s, 0, 0>>, Local(s))
  IN ConnectAll(u2, s, initial)

\* lines 324-455, from the resolution of connect() to the return of the Promise.
\* The Room is entered from the page's own UI, so the document is visible; one
\* joinRoom call is live at a time (its caller awaits the returned Promise).
\* RemoteParticipants already in the Room hold no subscribed track yet: their
\* publications arrive below as TrackPublished / TrackSubscribed.
joinRoomSetup(ui, s, initial, dom, heap) ==
  LET room == RoomOf(s, dom)
      t0 == <<s, 0, 0>>
      u1 == setupParticipantContainer(ui, Local(s))
      u2 == attachTrack(u1, t0, Local(s))
      u3 == ConnectAll(u2, s, initial)
  IN setCurrentActiveParticipant(u3, room, heap)

Join(initial, dom) ==
  LET s == session + 1
      t0 == <<s, 0, 0>>
      vt == [i \in Remotes |-> <<>>]
      heap == CurHeap @@ Heap(s, <<t0>>, vt)
  IN /\ roomState # "connected"
     /\ session < SessionBound
     /\ visibilityState = "visible"
     /\ dom \in {Null} \cup {Remote(s, initial[n]) : n \in DOMAIN initial}
     /\ session' = s
     /\ roomState' = "connected"
     /\ participants' = initial
     /\ everJoined' = Range(initial)
     /\ dominantSpeaker' = dom
     /\ videoTracks' = vt
     /\ unpublished' = {}
     /\ localVideoTrack' = Append(localVideoTrack, t0)
     /\ created' = created \cup {t0}
     /\ localPubs' = <<t0>>
     /\ SetUI(joinRoomSetup(UI, s, initial, dom, heap))
     /\ leaveHandlers' = leaveHandlers \cup {s}
     /\ onbeforeunload' = s
     /\ onpagehide' = IF isMobile THEN s ELSE onpagehide
     /\ onvisibilitychange' = IF isMobile THEN s ELSE onvisibilitychange
     /\ promise' = "pending"
     /\ settleCalls' = 0
     /\ disconnectError' = "none"
     /\ disconnectedListener' = TRUE
     /\ overlapped' = FALSE
     /\ interrupted' = FALSE
     /\ lastEvent' = Event("joinRoom", Null)
     /\ UNCHANGED <<isMobile, stopped, creating, publishing, visibilityState, pinClicked>>

\* joinRoom fails, and the async function returns a rejected Promise: connect()
\* rejects at line 324 (the token was refused, or no media could be acquired), or
\* the Room it resolved to has no local video publication and line 327 throws a
\* TypeError.  In the second case the Room, the next one connect() handed out, is
\* connected and no statement after line 327 has run: lastEvent.rooms holds it.
JoinFailed(cause) ==
  /\ roomState # "connected"
  /\ visibilityState = "visible"
  /\ lastEvent' = [Event("joinRoomRejected", Null) EXCEPT
                     !.via = cause,
                     !.rooms = IF cause = "noVideoTrack" THEN {session + 1} ELSE {}]
  /\ UNCHANGED <<isMobile, roomVars, uiVars, promiseVars, hookVars, visibilityState,
                 trackVars, runVars, pinClicked>>

\* room 'participantConnected' (lines 341-343)
ParticipantConnected(i) ==
  /\ roomState = "connected"
  /\ i \in Remotes \ everJoined
  /\ participants' = Append(participants, i)
  /\ everJoined' = everJoined \cup {i}
  /\ SetUI(setupParticipantContainer(UI, Remote(session, i)))
  /\ lastEvent' = Event("participantConnected", Remote(session, i))
  /\ UNCHANGED <<isMobile, session, roomState, dominantSpeaker, videoTracks, unpublished, promiseVars,
                 hookVars, visibilityState, trackVars, runVars, pinClicked>>

\* room 'participantDisconnected' (lines 346-348). The SDK has taken the
\* RemoteParticipant out of room.participants, through which room.dominantSpeaker
\* is looked up, before it emits the event.
ParticipantDisconnected(i) ==
  LET p == Remote(session, i)
      dom == IF dominantSpeaker = p THEN Null ELSE dominantSpeaker
  IN /\ roomState = "connected"
     /\ i \in Range(participants)
     /\ participants' = Remove(participants, i)
     /\ dominantSpeaker' = dom
     /\ SetUI(participantDisconnected(UI, p, RoomOf(session, dom), CurHeap))
     /\ lastEvent' = [Event("participantDisconnected", p) EXCEPT
                        !.wasPinned = (activeParticipant = p /\ isActiveParticipantPinned),
                        !.via = IF dominantSpeaker = p THEN "speaker" ELSE ""]
     /\ UNCHANGED <<isMobile, session, roomState, everJoined, videoTracks, unpublished, promiseVars,
                    hookVars, visibilityState, trackVars, runVars, pinClicked>>

\* room 'dominantSpeakerChanged' (lines 355-359): the SDK has set
\* room.dominantSpeaker to a RemoteParticipant of the Room, or to null; it may
\* also announce the null that the departure of the dominant speaker left.
DominantSpeakerChanged(d) ==
  /\ roomState = "connected"
  /\ d \in {Null} \cup {Remote(session, i) : i \in Range(participants)}
  /\ \/ d # dominantSpeaker
     \/ d = Null /\ lastEvent.kind = "participantDisconnected" /\ lastEvent.via = "speaker"
  /\ dominantSpeaker' = d
  /\ SetUI(onDominantSpeakerChanged(UI, RoomOf(session, d), CurHeap))
  /\ lastEvent' = Event("dominantSpeakerChanged", d)
  /\ UNCHANGED <<isMobile, session, roomState, participants, everJoined, videoTracks, unpublished,
                 promiseVars, hookVars, visibilityState, trackVars, runVars, pinClicked>>

\* a click on the thumbnail of `p` (lines 172-187); the thumbnail exists
Click(p) ==
  LET ui == onClick(UI, p, CurRoom, CurHeap)
  IN /\ p \in containers
     /\ SetUI(ui)
     /\ pinClicked' = IF ui.isActiveParticipantPinned THEN p ELSE pinClicked
     /\ lastEvent' = [Event("click", p) EXCEPT
                        !.wasPinned = (activeParticipant = p /\ isActiveParticipantPinned),
                        !.via = IF isActiveParticipantPinned /\ activeParticipant # p
                                THEN "repin" ELSE ""]
     /\ UNCHANGED <<isMobile, roomVars, promiseVars, hookVars, visibilityState,
                    trackVars, runVars>>

\* the ids of the publications a RemoteParticipant has made in this Room: a
\* publication, and its track, is a new object each time
UsedIds(i) ==
  {videoTracks[i][n].id : n \in DOMAIN videoTracks[i]}
    \cup {u[1][3] : u \in {v \in unpublished : v[1][2] = i}}

\* participant 'trackPublished' (lines 265-267, 292-307): the publication is not
\* subscribed yet, so trackPublished only registers its two listeners.
Publish(i, k) ==
  /\ roomState = "connected"
  /\ i \in Range(participants)
  /\ k \notin UsedIds(i)
  /\ videoTracks' = [videoTracks EXCEPT
                       ![i] = Append(@, [id |-> k, track |-> FALSE, ever |-> FALSE])]
  /\ lastEvent' = Event("trackPublished", Remote(session, i))
  /\ UNCHANGED <<isMobile, session, roomState, participants, everJoined, dominantSpeaker,
                 unpublished, uiVars, promiseVars, hookVars, visibilityState, trackVars,
                 runVars, pinClicked>>

\* each RemoteParticipant publishes up to MaxVideoPubs video tracks
TrackPublished(i, k) ==
  /\ Len(videoTracks[i]) < MaxVideoPubs
  /\ k \in PubIds
  /\ Publish(i, k)

\* a camera and a screen share: up to MaxVideoPubsTracks video tracks of one
\* RemoteParticipant, MaxRoomPubs publications in the Room
RoomPubs ==
  Cardinality(unpublished)
    + Cardinality({<<i, n>> \in Remotes \X (1..MaxVideoPubsTracks) : n \in DOMAIN videoTracks[i]})
TrackPublishedOfSeveral(i, k) ==
  /\ RoomPubs < MaxRoomPubs
  /\ k \in 1..MaxVideoPubsTracks
  /\ Publish(i, k)

\* publication 'subscribed' (lines 299-301)
TrackSubscribed(i, n) ==
  /\ roomState = "connected"
  /\ i \in Range(participants)
  /\ n \in DOMAIN videoTracks[i]
  /\ ~videoTracks[i][n].track
  /\ videoTracks' = [videoTracks EXCEPT ![i][n].track = TRUE, ![i][n].ever = TRUE]
  /\ SetUI(attachTrack(UI, <<session, i, videoTracks[i][n].id>>, Remote(session, i)))
  /\ lastEvent' = Event("subscribed", Remote(session, i))
  /\ UNCHANGED <<isMobile, session, roomState, participants, everJoined, dominantSpeaker,
                 unpublished, promiseVars, hookVars, visibilityState, trackVars, runVars,
                 pinClicked>>

\* publication 'unsubscribed' (lines 304-306); the RemoteVideoTrack object is
\* discarded with its priority.  The listener stays registered when the
\* RemoteParticipant has disconnected, so the event may follow
\* participantDisconnected.
TrackUnsubscribed(i, n) ==
  LET track == <<session, i, videoTracks[i][n].id>>
      ui == detachTrack(UI, track, Remote(session, i))
  IN /\ roomState = "connected"
     /\ i \in everJoined
     /\ n \in DOMAIN videoTracks[i]
     /\ videoTracks[i][n].track
     /\ videoTracks' = [videoTracks EXCEPT ![i][n].track = FALSE]
     /\ SetUI([ui EXCEPT !.highPriority = @ \ {track}])
     /\ lastEvent' = [Event("unsubscribed", Remote(session, i)) EXCEPT
                        !.threw = detachTrackThrows(UI, Remote(session, i))]
     /\ UNCHANGED <<isMobile, session, roomState, participants, everJoined, dominantSpeaker,
                    unpublished, promiseVars, hookVars, visibilityState, trackVars, runVars,
                    pinClicked>>

\* the RemoteParticipant unpublishes a track it is no longer subscribed to: the
\* publication leaves participant.videoTracks; no listener of the file runs, and
\* the two listeners of lines 299-306 stay on the publication.
TrackUnpublished(i, n) ==
  /\ roomState = "connected"
  /\ i \in Range(participants)
  /\ n \in DOMAIN videoTracks[i]
  /\ ~videoTracks[i][n].track
  /\ videoTracks' = [videoTracks EXCEPT ![i] = Remove(@, videoTracks[i][n])]
  /\ unpublished' = unpublished
       \cup {<<<<session, i, videoTracks[i][n].id>>, videoTracks[i][n].ever>>}
  /\ lastEvent' = Event("trackUnpublished", Remote(session, i))
  /\ UNCHANGED <<isMobile, session, roomState, participants, everJoined, dominantSpeaker,
                 uiVars, promiseVars, hookVars, visibilityState, trackVars, runVars,
                 pinClicked>>

\* publication 'subscribed' on a publication that was unpublished before its
\* subscription completed: the listener of lines 299-301 is still registered
TrackSubscribedLate(i, k) ==
  LET track == <<session, i, k>>
  IN /\ roomState = "connected"
     /\ <<track, FALSE>> \in unpublished
     /\ SetUI(attachTrack(UI, track, Remote(session, i)))
     /\ lastEvent' = [Event("subscribed", Remote(session, i)) EXCEPT !.via = "late"]
     /\ UNCHANGED <<isMobile, roomVars, promiseVars, hookVars, visibilityState, trackVars,
                    runVars, pinClicked>>

\* the camera tracks of a session, and whether one of its visibilitychange runs
\* is suspended at an await (lines 414-415)
LocalTracksOf(s) == {t \in created : t[1] = s}
Suspended(s) == creating[s] > 0 \/ \E t \in publishing : t[1] = s

\* ---- teardown: the once('disconnected') listener, lines 420-454
\* mutant of DisconnectAll: the RemoteParticipants are not handled as disconnected
DisconnectAll_Noop(ui, seq, room, heap) == ui

RECURSIVE DisconnectAll(_, _, _, _)
\* lines 435-437: room.participants.forEach(participant => participantDisconnected(...))
DisconnectAll(ui, seq, room, heap) ==
  IF seq = <<>> THEN ui
  ELSE DisconnectAll(
         participantDisconnected(ui, <<room.localParticipant[1], Head(seq)>>, room, heap),
         Tail(seq), room, heap)

\* mutant of onDisconnectedUI: the LocalParticipant is not handled as disconnected
onDisconnectedUI_SkipsLocal(ui, seq, room, heap) ==
  [DisconnectAll(ui, seq, room, heap) EXCEPT !.mainSrc = NoStream]

\* lines 431-440: what the listener does to the presentation state
onDisconnectedUI(ui, seq, room, heap) ==
  LET u1 == participantDisconnected(ui, room.localParticipant, room, heap)
      u2 == DisconnectAll(u1, seq, room, heap)
  IN [u2 EXCEPT !.mainSrc = NoStream]

\* mutant of Settle: the error is dropped
Settle_AlwaysResolves(state, error) ==
  IF state # "pending" THEN state ELSE "resolved"

\* lines 445-453: reject(error) or resolve(); a settled Promise keeps its state
Settle(state, error) ==
  IF state # "pending" THEN state ELSE IF error THEN "rejected" ELSE "resolved"

\* mutant of StopSaved: the saved track is left running
StopSaved_Noop(stoppedTracks, track) == stoppedTracks

\* lines 428-429: localVideoTrack.stop()
StopSaved(stoppedTracks, track) == stoppedTracks \cup {track}

\* lines 421-426: the window / document handlers after the listener cleared them
ClearedHook(hook, cleared) == IF cleared THEN 0 ELSE hook

\* The Room emits 'disconnected' (with an error or without): the listener runs.
Teardown(error, via, rooms) ==
  /\ roomState = "connected"
  /\ disconnectedListener
  /\ roomState' = "disconnected"
  /\ disconnectedListener' = FALSE
  /\ onbeforeunload' = ClearedHook(onbeforeunload, TRUE)
  /\ onpagehide' = ClearedHook(onpagehide, isMobile)
  /\ onvisibilitychange' = ClearedHook(onvisibilitychange, isMobile)
  /\ stopped' = StopSaved(stopped, localVideoTrack[session])
  /\ SetUI(onDisconnectedUI(UI, participants, CurRoom, CurHeap))
  /\ promise' = Settle(promise, error)
  /\ settleCalls' = settleCalls + 1
  /\ disconnectError' = IF error THEN "error" ELSE "clean"
  /\ lastEvent' = [Event("disconnected",
                           IF isActiveParticipantPinned THEN activeParticipant ELSE Null)
                     EXCEPT !.via = via, !.wasPinned = isActiveParticipantPinned,
                            !.rooms = rooms]
  /\ interrupted' = Suspended(session)
  /\ UNCHANGED <<isMobile, session, participants, everJoined, dominantSpeaker, videoTracks, unpublished,
                 visibilityState, localVideoTrack, created, localPubs, creating, publishing,
                 overlapped, pinClicked>>

\* the SDK reports the end of the session, with a TwilioError or without
RoomDisconnected(error) ==
  /\ Teardown(error, "sdk", {})
  /\ UNCHANGED leaveHandlers

\* a click on #leave-room (lines 364-367): every bound onLeave unbinds itself and
\* calls disconnect() on its Room, which emits 'disconnected' if still connected;
\* lastEvent.rooms holds the Rooms disconnect() was called on
LeaveClick ==
  /\ leaveHandlers # {}
  /\ leaveHandlers' = {}
  /\ IF session \in leaveHandlers /\ roomState = "connected"
     THEN Teardown(FALSE, "leave", leaveHandlers)
     ELSE /\ lastEvent' = [Event("leaveClick", Null) EXCEPT !.rooms = leaveHandlers]
          /\ UNCHANGED <<isMobile, roomVars, uiVars, promiseVars, onbeforeunload, onpagehide,
                         onvisibilitychange, visibilityState, trackVars, runVars, pinClicked>>

\* the screen track a session publishes
ScreenTrack(s) == <<s, 0, -1>>

\* a click on #start-sharing (lines 370-388).  Every joinRoom call so far has bound
\* an onStartScreen, and none is ever unbound: each asks for a screen capture and,
\* once granted, calls publishTrack on its own Room (lastEvent.rooms).  A mobile
\* browser has no getDisplayMedia, and the user may refuse the capture: no call is
\* made then.  The connected Room publishes the track, and the LocalParticipant's
\* 'trackPublished' listener (lines 265-267) attaches it; an ended Room rejects.
\* A Room's screen is shared at most MaxScreenShares times.
StartScreenClick(granted) ==
  LET calls == granted /\ ~isMobile
      shared == Cardinality({n \in DOMAIN localPubs : localPubs[n] = ScreenTrack(session)})
      published == calls /\ roomState = "connected"
  IN /\ session >= 1
     /\ published => shared < MaxScreenShares
     /\ localPubs' = IF published THEN Append(localPubs, ScreenTrack(session)) ELSE localPubs
     /\ SetUI(IF published THEN attachTrack(UI, ScreenTrack(session), Local(session)) ELSE UI)
     /\ lastEvent' = [Event("startScreenClick", Null) EXCEPT
                        !.rooms = IF calls THEN 1..session ELSE {}]
     /\ UNCHANGED <<isMobile, roomVars, promiseVars, hookVars, visibilityState,
                    localVideoTrack, created, stopped, runVars, pinClicked>>

\* window 'beforeunload' (lines 392-394)
BeforeUnload ==
  /\ onbeforeunload # 0
  /\ Teardown(FALSE, "beforeunload", {session})
  /\ UNCHANGED leaveHandlers

\* window 'pagehide' (lines 399-401), mobile only
PageHide ==
  /\ onpagehide # 0
  /\ Teardown(FALSE, "pagehide", {session})
  /\ UNCHANGED leaveHandlers

\* ---- document 'visibilitychange' (lines 405-417), mobile only

\* the event with no handler installed: only the document's state changes
VisibilityChangeUnhandled ==
  /\ isMobile
  /\ onvisibilitychange = 0
  /\ visibilityState' = IF visibilityState = "visible" THEN "hidden" ELSE "visible"
  /\ lastEvent' = Event("visibilitychange", Null)
  /\ UNCHANGED <<isMobile, roomVars, uiVars, promiseVars, hookVars, trackVars, runVars,
                 pinClicked>>

\* mutant of unpublishTrack: the publication is kept
unpublishTrack_Noop(pubs, track) == pubs

\* line 410: localParticipant.unpublishTrack(track)
unpublishTrack(pubs, track) == Remove(pubs, track)

\* lines 406-410: stop() and unpublishTrack() on the saved track. unpublishTrack of
\* a track whose publishTrack is still pending may or may not let it complete.
VisibilityHidden(cancel) ==
  LET s == onvisibilitychange
      t == localVideoTrack[s]
  IN /\ s # 0
     /\ visibilityState = "visible"
     /\ cancel \in (IF t \in publishing THEN BOOLEAN ELSE {FALSE})
     /\ visibilityState' = "hidden"
     /\ stopped' = StopSaved(stopped, t)
     /\ localPubs' = unpublishTrack(localPubs, t)
     /\ publishing' = IF cancel THEN publishing \ {t} ELSE publishing
     /\ overlapped' = (overlapped \/ Suspended(s))
     /\ lastEvent' = Event("hidden", Local(s))
     /\ UNCHANGED <<isMobile, roomVars, uiVars, promiseVars, hookVars, localVideoTrack,
                    created, creating, interrupted, pinClicked>>

\* lines 411-414, up to the first await: createLocalVideoTrack is called
VisibilityVisible ==
  LET s == onvisibilitychange
  IN /\ s # 0
     /\ visibilityState = "hidden"
     /\ Cardinality(LocalTracksOf(s)) + creating[s] < MaxLocalTracks
     /\ visibilityState' = "visible"
     /\ creating' = [creating EXCEPT ![s] = @ + 1]
     /\ overlapped' = (overlapped \/ Suspended(s))
     /\ lastEvent' = Event("visible", Local(s))
     /\ UNCHANGED <<isMobile, roomVars, uiVars, promiseVars, hookVars, trackVars,
                    publishing, interrupted, pinClicked>>

\* line 414 resumes: the new track is saved, and line 415 calls publishTrack,
\* which a disconnected Room rejects
CreateDone(s) ==
  LET t == <<s, 0, Cardinality(LocalTracksOf(s))>>
  IN /\ creating[s] > 0
     /\ creating' = [creating EXCEPT ![s] = @ - 1]
     /\ created' = created \cup {t}
     /\ localVideoTrack' = [localVideoTrack EXCEPT ![s] = t]
     /\ publishing' = IF s = session /\ roomState = "connected"
                      THEN publishing \cup {t} ELSE publishing
     /\ lastEvent' = Event("trackCreated", Local(s))
     /\ UNCHANGED <<isMobile, roomVars, uiVars, promiseVars, hookVars, visibilityState,
                    stopped, localPubs, overlapped, interrupted, pinClicked>>

\* line 415 resumes: the track is in localParticipant.videoTracks, and the
\* LocalParticipant's 'trackPublished' listener (lines 265-267) attaches it
PublishDone(t) ==
  LET ok == t[1] = session /\ roomState = "connected"
  IN /\ t \in publishing
     /\ publishing' = publishing \ {t}
     /\ localPubs' = IF ok THEN Append(localPubs, t) ELSE localPubs
     /\ SetUI(IF ok THEN attachTrack(UI, t, Local(session)) ELSE UI)
     /\ lastEvent' = Event("localTrackPublished", Local(t[1]))
     /\ UNCHANGED <<isMobile, roomVars, promiseVars, hookVars, visibilityState,
                    localVideoTrack, created, stopped, creating, overlapped, interrupted,
                    pinClicked>>

\* ---- specifications
\* desktop: isMobile is false, no pagehide / visibilitychange handler exists
Next ==
  \/ \E initial \in InjectiveSeqs(Remotes, MaxRemotes) :
       \E dom \in {Null} \cup {Remote(session + 1, i) : i \in Remotes} : Join(initial, dom)
  \/ \E cause \in {"connect", "noVideoTrack"} : JoinFailed(cause)
  \/ \E i \in Remotes : ParticipantConnected(i)
  \/ \E i \in Remotes : ParticipantDisconnected(i)
  \/ \E d \in {Null} \cup {Remote(session, i) : i \in Remotes} : DominantSpeakerChanged(d)
  \/ \E p \in containers : Click(p)
  \/ \E i \in Remotes, k \in PubIds : TrackPublished(i, k)
  \/ \E i \in Remotes, n \in 1..MaxVideoPubs : TrackSubscribed(i, n)
  \/ \E i \in Remotes, n \in 1..MaxVideoPubs : TrackUnsubscribed(i, n)
  \/ \E i \in Remotes, n \in 1..MaxVideoPubs : TrackUnpublished(i, n)
  \/ \E i \in Remotes, k \in PubIds : TrackSubscribedLate(i, k)
  \/ \E error \in BOOLEAN : RoomDisconnected(error)
  \/ LeaveClick
  \/ BeforeUnload

Spec == Init /\ [][Next]_vars

\* desktop, one session in which a RemoteParticipant may publish several video
\* tracks, each subscribed only while it is published
NextTracks ==
  \/ \E initial \in InjectiveSeqs(Remotes, MaxRemotes) :
       \E dom \in {Null} \cup {Remote(1, i) : i \in Remotes} : session = 0 /\ Join(initial, dom)
  \/ \E i \in Remotes : ParticipantConnected(i)
  \/ \E i \in Remotes : ParticipantDisconnected(i)
  \/ \E d \in {Null} \cup {Remote(session, i) : i \in Remotes} : DominantSpeakerChanged(d)
  \/ \E p \in containers : Click(p)
  \/ \E i \in Remotes, k \in 1..MaxVideoPubsTracks : TrackPublishedOfSeveral(i, k)
  \/ \E i \in Remotes, n \in 1..MaxVideoPubsTracks : TrackSubscribed(i, n)
  \/ \E i \in Remotes, n \in 1..MaxVideoPubsTracks : TrackUnsubscribed(i, n)
  \/ \E i \in Remotes, n \in 1..MaxVideoPubsTracks : TrackUnpublished(i, n)
  \/ \E error \in BOOLEAN : RoomDisconnected(error)
  \/ LeaveClick

SpecTracks == Init /\ [][NextTracks]_vars

\* desktop, the sessions with their clicks on #leave-room and #start-sharing,
\* without the RemoteParticipants' tracks
NextSharing ==
  \/ \E initial \in InjectiveSeqs(Remotes, MaxRemotes) :
       \E dom \in {Null} \cup {Remote(session + 1, i) : i \in Remotes} : Join(initial, dom)
  \/ \E cause \in {"connect", "noVideoTrack"} : JoinFailed(cause)
  \/ \E i \in Remotes : ParticipantConnected(i)
  \/ \E i \in Remotes : ParticipantDisconnected(i)
  \/ \E d \in {Null} \cup {Remote(session, i) : i \in Remotes} : DominantSpeakerChanged(d)
  \/ \E p \in containers : Click(p)
  \/ \E error \in BOOLEAN : RoomDisconnected(error)
  \/ LeaveClick
  \/ \E granted \in BOOLEAN : StartScreenClick(granted)
  \/ BeforeUnload

SpecSharing == Init /\ [][NextSharing]_vars

\* mobile: the same, with the pagehide and visibilitychange handlers
NextMobile ==
  \/ Next
  \/ PageHide
  \/ VisibilityChangeUnhandled
  \/ \E cancel \in BOOLEAN : VisibilityHidden(cancel)
  \/ VisibilityVisible
  \/ \E s \in Sessions : CreateDone(s)
  \/ \E t \in publishing : PublishDone(t)

SpecMobile == InitMobile /\ [][NextMobile]_vars

\* ---- properties
TrackEvents == {"trackPublished", "subscribed", "unsubscribed", "trackUnpublished"}

\* C1: while no Participant is pinned, after the dominantSpeakerChanged listener has
\* run, activeParticipant is the dominant speaker the event reported, or the
\* LocalParticipant if it reported none (null).
C1_ActiveFollowsDominantSpeaker ==
  (lastEvent.kind = "dominantSpeakerChanged" /\ ~isActiveParticipantPinned)
    => activeParticipant = (IF lastEvent.p # Null THEN lastEvent.p ELSE Local(session))

\* C1 witness: unpinned, the speaker has just changed to a RemoteParticipant after
\* having been another one, and that Participant is active.
C1_Witness ==
  /\ lastEvent.kind = "dominantSpeakerChanged"
  /\ ~isActiveParticipantPinned
  /\ lastEvent.p # Null
  /\ activeParticipant = lastEvent.p
  /\ pinClicked # Null

\* C2: while a Participant P is pinned, a dominantSpeakerChanged event or a track
\* published / subscribed / unsubscribed / unpublished event leaves
\* activeParticipant = P and the pin set.
C2_PinnedStaysActive ==
  [][(isActiveParticipantPinned /\ lastEvent'.kind \in {"dominantSpeakerChanged"} \cup TrackEvents)
       => (activeParticipant' = activeParticipant /\ isActiveParticipantPinned')]_vars

\* C2 witness: P is pinned and active, and the speaker has just changed to another
\* Participant.
C2_Witness ==
  /\ lastEvent.kind = "dominantSpeakerChanged"
  /\ isActiveParticipantPinned
  /\ activeParticipant = pinClicked
  /\ dominantSpeaker # Null
  /\ dominantSpeaker # activeParticipant

\* C3: in every state between handlers, if isActiveParticipantPinned is true then
\* activeParticipant is non-null and is the Participant whose thumbnail was last
\* clicked to pin.
C3_PinnedIsActive ==
  isActiveParticipantPinned => (activeParticipant # Null /\ activeParticipant = pinClicked)

\* C3 witness: a Participant is pinned in a second session, after an earlier
\* session with a pin was torn down.
C3_Witness ==
  /\ isActiveParticipantPinned
  /\ session = 2
  /\ \E i \in Remotes : activeParticipant = Remote(2, i)
  /\ dominantSpeaker # Null
  /\ dominantSpeaker # activeParticipant

\* C4: when the pinned active Participant disconnects, the pin flag becomes false
\* and activeParticipant becomes the Room's dominant speaker, or the
\* LocalParticipant if there is none; when another Participant disconnects, both
\* are unchanged; either way the Participant's container is gone.
C4_ParticipantDisconnected ==
  [][lastEvent'.kind = "participantDisconnected" =>
       /\ lastEvent'.p \notin containers'
       /\ IF activeParticipant = lastEvent'.p /\ isActiveParticipantPinned
          THEN /\ ~isActiveParticipantPinned'
               /\ activeParticipant' = (IF dominantSpeaker' # Null THEN dominantSpeaker'
                                        ELSE Local(session))
          ELSE /\ activeParticipant' = activeParticipant
               /\ isActiveParticipantPinned' = isActiveParticipantPinned]_vars

\* C4 witness: the pinned active Participant has just disconnected while another
\* RemoteParticipant was the dominant speaker, which is now active.
C4_Witness ==
  /\ lastEvent.kind = "participantDisconnected"
  /\ lastEvent.wasPinned
  /\ ~isActiveParticipantPinned
  /\ dominantSpeaker # Null
  /\ activeParticipant = dominantSpeaker

\* C5: a thumbnail click toggles the pin: on the thumbnail of the pinned active
\* Participant it clears the flag and makes the dominant speaker (or the
\* LocalParticipant) active; in any other state it sets the flag and makes the
\* clicked Participant active.
C5_ClickToggles ==
  [][lastEvent'.kind = "click" =>
       IF activeParticipant = lastEvent'.p /\ isActiveParticipantPinned
       THEN /\ ~isActiveParticipantPinned'
            /\ activeParticipant' = (IF dominantSpeaker # Null THEN dominantSpeaker
                                     ELSE Local(session))
       ELSE /\ isActiveParticipantPinned'
            /\ activeParticipant' = lastEvent'.p]_vars

\* C5 witness: the pinned Participant's thumbnail has just been clicked again, and
\* the dominant speaker, another Participant, is active.
C5_Witness ==
  /\ lastEvent.kind = "click"
  /\ lastEvent.wasPinned
  /\ ~isActiveParticipantPinned
  /\ dominantSpeaker # Null
  /\ dominantSpeaker # lastEvent.p
  /\ activeParticipant = dominantSpeaker

\* C6: the Promise joinRoom returned is pending while the Room is connected, and
\* once the Room's disconnected event has fired it has been settled by exactly one
\* call: rejected if the event carried an error, resolved otherwise; a Leave click
\* ends in the same listener.
C6_PromiseSettlesOnDisconnect ==
  /\ roomState = "connected" => (promise = "pending" /\ settleCalls = 0)
  /\ roomState = "disconnected" =>
       /\ settleCalls = 1
       /\ promise = (IF disconnectError = "error" THEN "rejected" ELSE "resolved")
  /\ lastEvent.via = "leave" => (roomState = "disconnected" /\ promise = "resolved")

\* C6 witness: the second session was ended by an SDK-reported error, and its
\* Promise is rejected.
C6_Witness ==
  /\ session = 2
  /\ roomState = "disconnected"
  /\ disconnectError = "error"
  /\ promise = "rejected"

\* C7: right after the disconnected listener has run, whatever the state before,
\* the saved LocalVideoTrack is stopped, no Participant container is left, the main
\* <video> has srcObject null, and window.onbeforeunload (on mobile also
\* window.onpagehide and document.onvisibilitychange) is null.
C7_TeardownClearsEverything ==
  lastEvent.kind = "disconnected" =>
    /\ localVideoTrack[session] \in stopped
    /\ containers = {}
    /\ mainSrc = NoStream
    /\ onbeforeunload = 0
    /\ isMobile => (onpagehide = 0 /\ onvisibilitychange = 0)

\* C7 witness: on mobile, the Room was left while the page was hidden, a
\* RemoteParticipant was in it and a Participant had been pinned.
C7_Witness ==
  /\ lastEvent.kind = "disconnected"
  /\ isMobile
  /\ visibilityState = "hidden"
  /\ participants # <<>>
  /\ pinClicked # Null
  /\ localVideoTrack[session] # <<session, 0, 0>>

LiveTracks(s) == LocalTracksOf(s) \ stopped

C9_DisconnectWhileSuspended ==
  (isMobile /\ roomState = "disconnected" /\ interrupted /\ ~overlapped
     /\ ~Suspended(session)) =>
    /\ LiveTracks(session) = {}
    /\ Range(localPubs) \subseteq stopped

\* C10: if the page is hidden again, or becomes visible a second time, while the
\* foreground handler is suspended, then once every handler run has finished: a
\* hidden page has no live or published local camera track, and a visible page
\* has exactly one, the saved one.
C10_ReentrantVisibility ==
  (isMobile /\ roomState = "connected" /\ overlapped /\ ~Suspended(session)) =>
    /\ visibilityState = "hidden" => (LiveTracks(session) = {} /\ localPubs = <<>>)
    /\ visibilityState = "visible" =>
         /\ LiveTracks(session) = {localVideoTrack[session]}
         /\ localPubs = <<localVideoTrack[session]>>

\* C11: a track whose publication was unpublished before its subscription
\* completed is attached neither to its Participant's thumbnail nor to the main
\* <video>, also after a subscribed event that arrives after the unpublish.
C11_NoDanglingAttach ==
  \A u \in unpublished :
    ~u[2] => (mainSrc # u[1] /\ \A p \in containers : thumbSrc[p] # u[1])

\* C12: right after joinRoom's synchronous setup in a Room that holds only the
\* LocalParticipant and has no dominant speaker, on a first join or a re-join,
\* activeParticipant is the LocalParticipant, and the main <video> has the local
\* video track attached and shown if the LocalParticipant has one, and is hidden
\* (opacity 0) otherwise.
C12_JoinAlone ==
  (lastEvent.kind = "joinRoom" /\ participants = <<>> /\ dominantSpeaker = Null) =>
    /\ activeParticipant = Local(session)
    /\ IF localPubs # <<>>
       THEN mainSrc = Head(localPubs) /\ mainOpacity = ""
       ELSE mainOpacity = "0"

\* C12 witness: a re-join alone, after a session in which a Participant was pinned,
\* shows the new Room's local video track.
C12_Witness ==
  /\ lastEvent.kind = "joinRoom"
  /\ session = 2
  /\ participants = <<>>
  /\ pinClicked # Null
  /\ activeParticipant = Local(2)
  /\ mainSrc = <<2, 0, 0>>
  /\ mainOpacity = ""

\* C13: detaching never raises an error: whatever the order of subscribed,
\* unsubscribed, participantDisconnected and disconnected events, the unsubscribed
\* listener of a track that is not attached, or whose Participant's container has
\* already been removed, ends without an error.
C13_DetachNeverThrows ==
  lastEvent.kind = "unsubscribed" => ~lastEvent.threw

\* C14: when joinRoom fails, because connect() rejects or because there is no local
\* video track, the call rejects and leaves activeParticipant, the pin flag, the
\* Participant containers and the window / document handlers unchanged, and no
\* Room is left connected.
C14_FailedJoinLeavesNothing ==
  [][lastEvent'.kind = "joinRoomRejected" =>
       /\ UNCHANGED <<activeParticipant, isActiveParticipantPinned, containers, hookVars>>
       /\ lastEvent'.rooms = {}]_vars

\* the video tracks a Participant currently offers: its subscribed
\* RemoteVideoTracks, or the LocalParticipant's published tracks
CurrentVideoTracks(participant) ==
  IF participant = Null \/ participant[1] # session THEN {}
  ELSE IF IsLocal(participant) THEN Range(localPubs)
  ELSE PriorityTracks(participant, CurHeap)

\* C15: every video track attached to the main <video> is a currently subscribed
\* video track of the current activeParticipant; once setActiveParticipant has
\* switched from A to B, no video track of A is attached there any more, also when
\* A has more than one video track.
C15_MainShowsActiveParticipant ==
  mainSrc \notin {NoStream, EmptyStream} => mainSrc \in CurrentVideoTracks(activeParticipant)

\* C16 as stated: in every reachable state every video track whose last requested
\* priority is high belongs to the currently pinned Participant.
C16_HighPriorityIsPinned ==
  \A t \in highPriority : isActiveParticipantPinned /\ activeParticipant = <<t[1], t[2]>>

\* the same, for the tracks of the RemoteParticipants in the connected Room
InRoomHighPriorityIsPinned ==
  \A t \in highPriority :
    (roomState = "connected" /\ t[1] = session /\ t[2] \in Range(participants))
      => (isActiveParticipantPinned /\ activeParticipant = <<t[1], t[2]>>)

\* C16 amended: among the Participants in the Room, video priority follows the
\* pin.  A click that pins Q takes the high priority back from the tracks of the
\* Participant pinned before and requests it on Q's subscribed video tracks; a
\* click that unpins takes it back; for a Participant without subscribed video
\* tracks, or without setPriority (the LocalParticipant), the request changes
\* nothing.  So every video track of a Participant in the Room whose last
\* requested priority is high belongs to the currently pinned Participant.
C16_PriorityFollowsPin ==
  [][/\ InRoomHighPriorityIsPinned'
     /\ lastEvent'.kind = "click" =>
          highPriority' =
            IF lastEvent'.wasPinned
            THEN highPriority \ PriorityTracks(lastEvent'.p, CurHeap)
            ELSE ((IF isActiveParticipantPinned
                   THEN highPriority \ PriorityTracks(activeParticipant, CurHeap)
                   ELSE highPriority)
                  \cup PriorityTracks(lastEvent'.p, CurHeap))]_vars

\* C16 witness: the pin has just been moved by a click from a RemoteParticipant
\* with a subscribed video track to another one: only the second one's track is
\* at high priority.
C16_Witness ==
  /\ lastEvent.kind = "click"
  /\ lastEvent.via = "repin"
  /\ isActiveParticipantPinned
  /\ highPriority = PriorityTracks(activeParticipant, CurHeap)
  /\ highPriority # {}
  /\ \E i \in Range(participants) :
       /\ Remote(session, i) # activeParticipant
       /\ PriorityTracks(Remote(session, i), CurHeap) # {}

\* C17: at most one container carries class "active", and it is
\* activeParticipant's; a container carries class "pinned" only if it is
\* activeParticipant's and isActiveParticipantPinned is true; a step that changes
\* activeParticipant leaves neither class on the previous one's container.
C17_Markings ==
  [][/\ Cardinality(activeClass') <= 1
     /\ activeClass' \subseteq {activeParticipant'} \cap containers'
     /\ pinnedClass' \subseteq {activeParticipant'} \cap containers'
     /\ pinnedClass' # {} => isActiveParticipantPinned'
     /\ activeParticipant' # activeParticipant =>
          activeParticipant \notin (activeClass' \cup pinnedClass')]_vars

\* C17 witness: a click has just moved the pin from one RemoteParticipant to
\* another: the second one's container carries both classes, and the first one's
\* container, still there, carries none.
C17_Witness ==
  /\ lastEvent.kind = "click"
  /\ lastEvent.via = "repin"
  /\ activeClass = {activeParticipant}
  /\ pinnedClass = {activeParticipant}
  /\ ~IsLocal(activeParticipant)
  /\ \E i \in Range(participants) :
       Remote(session, i) # activeParticipant /\ Remote(session, i) \in containers

\* C18: while the Room is connected, activeParticipant is the LocalParticipant or
\* a RemoteParticipant that is in the Room: it does not point at a
\* RemoteParticipant whose participantDisconnected has been handled, pinned or
\* not.
C18_ActiveParticipantIsInRoom ==
  roomState = "connected" =>
    \/ activeParticipant = Local(session)
    \/ \E i \in Range(participants) : activeParticipant = Remote(session, i)

\* C19: the pin flag does not outlive a session: after the disconnected listener
\* has run it is false, whichever Participant was pinned, so joinRoom starts
\* unpinned, and as long as no thumbnail of the new Room has been clicked to pin,
\* its dominantSpeakerChanged events set activeParticipant.
C19_PinDoesNotSurviveSession ==
  /\ lastEvent.kind \in {"disconnected", "joinRoom"} => ~isActiveParticipantPinned
  /\ roomState = "disconnected" => ~isActiveParticipantPinned
  /\ (lastEvent.kind = "dominantSpeakerChanged"
        /\ (pinClicked = Null \/ pinClicked[1] # session)) =>
       activeParticipant = (IF lastEvent.p # Null THEN lastEvent.p ELSE Local(session))

\* C19 witness: the second session has just been torn down while a
\* RemoteParticipant still in the Room was pinned, and the flag is false.
C19_Witness ==
  /\ session = 2
  /\ lastEvent.kind = "disconnected"
  /\ lastEvent.wasPinned
  /\ ~IsLocal(lastEvent.p)
  /\ lastEvent.p[2] \in Range(participants)
  /\ ~isActiveParticipantPinned

\* C20: across join / leave cycles, a click on Leave or on start-sharing calls
\* disconnect() or publishTrack() on at most one Room, the one currently
\* connected, and never on the Room of a session that has ended.
C20_ClicksActOnCurrentRoom ==
  /\ lastEvent.kind = "leaveClick" => lastEvent.rooms = {}
  /\ (lastEvent.kind = "disconnected" /\ lastEvent.via = "leave") => lastEvent.rooms = {session}
  /\ lastEvent.kind = "startScreenClick" =>
       lastEvent.rooms \subseteq (IF roomState = "connected" THEN {session} ELSE {})
====
